---- MODULE Spec2Model ----
(***************************************************************************)
(* Paper Mill (salevine/mergePDF): the page component (useState fields,     *)
(* event handlers, the async processTrim, addTrimFile, addFiles and        *)
(* mergePDFs with their await points and timers, what the summary shows,   *)
(* and the auto-merge effect of the merge-only version) as a state machine.*)
(***************************************************************************)
EXTENDS Integers, Sequences, FiniteSets, Bags, TLC

\* ------------------------------------------------------------------ bounds
\* Largest page count of a document loaded in the interactive session.
MaxPages == 2
\* Pages 1..MaxRotPage are the ones the user rotates in the interactive session.
MaxRotPage == 1
\* addTrimFile calls that may be in flight at the same time.
MaxLoads == 1
\* Largest page count of the documents handed to processTrim in SpecPlan.
PlanMaxPages == 5
\* Pages 1..PlanMaxRotPage carry rotations in the inputs of SpecPlan.
PlanMaxRotPage == 2
\* Page count of the document of SpecCuts (room for MAX_CUTS + 1 cut positions).
CutDocPages == 6
\* Page count of the document edited in SpecEdit.
EditDocPages == 4
\* Files supplied to the merge list in the whole of a SpecMerge session.
MaxFileIds == 4
\* Files supplied to the merge list in the whole of a SpecIntake session.
IntakeFileIds == 2
\* addTrimFile calls that may be in flight at the same time in SpecIntake.
IntakeLoads == 2
\* Files supplied to the merge list in the whole of a SpecAdds session.
AddsFileIds == 6
\* Files supplied to the merge list in the whole of a SpecLive session.
LiveFileIds == 2
\* Files supplied to the list in the whole of a SpecAuto session.
AutoFileIds == 3
\* PDF files in one drop or one file-input selection.
MaxBatch == 3
\* addFiles calls that may be in flight at the same time.
MaxAdds == 2

\* ------------------------------------------------------- program constants
MAX_FILES == 5
MAX_CUTS == 4

\* null of useState<TrimFile | null>, of useState<number | null> and of the error
NoFile == [name |-> <<>>, pageCount |-> 0]
NoPage == 0
NoError == "null"
ErrOnlyPdf == "Only PDF files are accepted"
ErrUnreadable == "Could not read PDF. File may be corrupted or encrypted."
ErrEmpty == "PDF appears to be empty"
ErrPreviews == "Could not generate page previews. File may be corrupted."
ErrMaxCuts == "Maximum 4 cut points (5 parts)"
ErrDeleteAll == "Cannot delete all pages"
ErrProcess == "Failed to process PDF. File may be corrupted or encrypted."
ErrRemoveFirst == "Remove current file first"
ErrMaxFiles == "Maximum 5 files allowed"
ErrMerge == "Failed to merge PDFs. Some files may be corrupted or encrypted."
ErrSlots(availableSlots) ==
  "Only " \o ToString(availableSlots) \o " more file"
    \o (IF availableSlots = 1 THEN "" ELSE "s") \o " can be added"

\* ------------------------------------------------------------ array helpers
\* Array.prototype.includes
Includes(arr, x) == \E k \in 1..Len(arr) : arr[k] = x

\* Array.prototype.filter((p) => p !== x)
RECURSIVE FilterOut(_, _)
FilterOut(arr, x) ==
  IF arr = <<>> THEN <<>>
  ELSE IF Head(arr) = x THEN FilterOut(Tail(arr), x)
       ELSE <<Head(arr)>> \o FilterOut(Tail(arr), x)

\* insertion of one number into an ascending array
RECURSIVE InsertSorted(_, _)
InsertSorted(arr, x) ==
  IF arr = <<>> THEN <<x>>
  ELSE IF x < Head(arr) THEN <<x>> \o arr
       ELSE <<Head(arr)>> \o InsertSorted(Tail(arr), x)

\* Array.prototype.sort((a, b) => a - b)
RECURSIVE SortAsc(_)
SortAsc(arr) ==
  IF arr = <<>> THEN <<>> ELSE InsertSorted(SortAsc(Tail(arr)), Head(arr))

\* the members of an array
Elems(arr) == {arr[k] : k \in 1..Len(arr)}

\* new Map()
EmptyMap == [p \in {} |-> 0]

\* Map.prototype.get(p) || 0
RotationOf(rots, p) == IF p \in DOMAIN rots THEN rots[p] ELSE 0

\* ------------------------------------------------------------- file names
\* A file name is the array of its characters.
PdfLower(c) == IF c = "P" THEN "p" ELSE IF c = "D" THEN "d" ELSE IF c = "F" THEN "f" ELSE c

\* name.replace(/\.pdf$/i, '')
BaseName(name) ==
  LET n == Len(name) IN
  IF n >= 4 /\ name[n - 3] = "." /\ PdfLower(name[n - 2]) = "p"
     /\ PdfLower(name[n - 1]) = "d" /\ PdfLower(name[n]) = "f"
  THEN SubSeq(name, 1, n - 4)
  ELSE name

\* The documents the user supplies: one per page count, with the three
\* spellings of the extension the type filter lets through.
DocName(k) ==
  IF k % 3 = 1 THEN <<"a", ".", "p", "d", "f">>
  ELSE IF k % 3 = 2 THEN <<"b", ".", "P", "D", "F">>
  ELSE <<"c">>

Doc(k) == [name |-> DocName(k), pageCount |-> k]

\* ------------------------------------------------- processTrim, pure parts
\* Array.from({ length: pageCount }, (_, i) => i + 1).filter(p => !deletedPages.has(p))
RECURSIVE ActiveFrom(_, _, _)
ActiveFrom(p, pageCount, deleted) ==
  IF p > pageCount THEN <<>>
  ELSE IF p \in deleted THEN ActiveFrom(p + 1, pageCount, deleted)
       ELSE <<p>> \o ActiveFrom(p + 1, pageCount, deleted)

ActivePageNums(pageCount, deleted) == ActiveFrom(1, pageCount, deleted)

\* hasModifications that overlooks the rotations
HasModificationsNoRotations(cuts, deleted, rots) ==
  Cardinality(deleted) > 0 \/ Len(cuts) > 0

\* hasModifications
HasModifications(cuts, deleted, rots) ==
  Cardinality(deleted) > 0 \/ Cardinality(DOMAIN rots) > 0 \/ Len(cuts) > 0

\* The loop, currentRange not emptied after a push to ranges.
RECURSIVE RangeLoopNoReset(_, _, _, _, _)
RangeLoopNoReset(active, k, sortedCuts, ranges, currentRange) ==
  IF k > Len(active)
  THEN IF Len(currentRange) > 0 THEN Append(ranges, currentRange) ELSE ranges
  ELSE LET pushed == Append(currentRange, active[k]) IN
       IF Includes(sortedCuts, active[k])
       THEN RangeLoopNoReset(active, k + 1, sortedCuts, Append(ranges, pushed), pushed)
       ELSE RangeLoopNoReset(active, k + 1, sortedCuts, ranges, pushed)

\* The loop, a boundary taken from the original ordinals: a cut on any page from
\* the one just pushed up to the next surviving one closes the range.
RECURSIVE RangeLoopOnOrdinals(_, _, _, _, _)
RangeLoopOnOrdinals(active, k, sortedCuts, ranges, currentRange) ==
  IF k > Len(active)
  THEN IF Len(currentRange) > 0 THEN Append(ranges, currentRange) ELSE ranges
  ELSE LET pushed == Append(currentRange, active[k]) IN
       IF \E c \in Elems(sortedCuts) :
            active[k] <= c /\ (k = Len(active) \/ c < active[k + 1])
       THEN RangeLoopOnOrdinals(active, k + 1, sortedCuts, Append(ranges, pushed), <<>>)
       ELSE RangeLoopOnOrdinals(active, k + 1, sortedCuts, ranges, pushed)

\* The loop, the trailing range pushed without the test of its length.
RECURSIVE RangeLoopPushTrailing(_, _, _, _, _)
RangeLoopPushTrailing(active, k, sortedCuts, ranges, currentRange) ==
  IF k > Len(active)
  THEN Append(ranges, currentRange)
  ELSE LET pushed == Append(currentRange, active[k]) IN
       IF Includes(sortedCuts, active[k])
       THEN RangeLoopPushTrailing(active, k + 1, sortedCuts, Append(ranges, pushed), <<>>)
       ELSE RangeLoopPushTrailing(active, k + 1, sortedCuts, ranges, pushed)

\* The loop over activePageNums: k is the position of the page taken next,
\* ranges and currentRange are the loop's two accumulators.
RECURSIVE RangeLoop(_, _, _, _, _)
RangeLoop(active, k, sortedCuts, ranges, currentRange) ==
  IF k > Len(active)
  THEN IF Len(currentRange) > 0 THEN Append(ranges, currentRange) ELSE ranges
  ELSE LET pushed == Append(currentRange, active[k]) IN
       IF Includes(sortedCuts, active[k])
       THEN RangeLoop(active, k + 1, sortedCuts, Append(ranges, pushed), <<>>)
       ELSE RangeLoop(active, k + 1, sortedCuts, ranges, pushed)

BuildRanges(active, cuts) == RangeLoop(active, 1, SortAsc(cuts), <<>>, <<>>)

\* The /Rotate entry of page p of the documents the user supplies: the four
\* values a page can carry, in turn.
SourceRotate(p) == (p % 4) * 90

\* the /Rotate entry of a copied page, the rotation added to the one it has
RotateAfterExportAdditive(sourceRotate, rotation) == (sourceRotate + rotation) % 360

\* the /Rotate entry of a copied page after
\* if (rotation !== 0) page.setRotation(degrees(rotation))
RotateAfterExport(sourceRotate, rotation) ==
  IF rotation # 0 THEN rotation ELSE sourceRotate

\* pages.forEach: each copied page with the rotation set on it (0: the page is
\* added as copied, setRotation is not called) and the /Rotate entry it ends with.
PagesWithRotation(rangePages, rots) ==
  [k \in 1..Len(rangePages) |->
     [page |-> rangePages[k],
      rotation |-> RotationOf(rots, rangePages[k]),
      rotate |-> RotateAfterExport(SourceRotate(rangePages[k]),
                                   RotationOf(rots, rangePages[k]))]]

\* link.download of the single artifact and of part i (0-based loop index)
TrimmedName(fileName) == [base |-> BaseName(fileName), suffix |-> "-trimmed", n |-> 0]
PartName(fileName, i) == [base |-> BaseName(fileName), suffix |-> "-part", n |-> i + 1]

\* ------------------------------------------------------------------- state
VARIABLES
  mode,                 \* 'merge' | 'trim'
  files,                \* the merge list
  trimFile,             \* NoFile or [name, pageCount]
  cutPoints,            \* number[]
  deletedPages,         \* Set<number>
  rotations,            \* Map<number, number>
  isProcessing,
  isLoadingThumbnails,
  viewerPage,           \* NoPage (null) or a page number
  error,
  loads,                \* bag of addTrimFile calls suspended at an await
  tproc,                \* the processTrim call in flight: its closure and position
  downloads,            \* artifacts delivered by the latest processTrim call
  isMerging,
  adds,                 \* bag of addFiles calls suspended at their await
  nextId,               \* the ids handed out so far, plus one
  mproc,                \* the mergePDFs call in flight: its closure and position
  merged                \* artifacts delivered by the latest mergePDFs call

vars == <<mode, files, trimFile, cutPoints, deletedPages, rotations, isProcessing,
          isLoadingThumbnails, viewerPage, error, loads, tproc, downloads,
          isMerging, adds, nextId, mproc, merged>>

trimVars == <<trimFile, cutPoints, deletedPages, rotations>>

\* what the trim handlers leave alone of the merge side (files apart)
mergeVars == <<isMerging, adds, nextId, mproc, merged>>

\* what the merge handlers leave alone of the trim side
trimSide == <<trimFile, cutPoints, deletedPages, rotations, isProcessing,
              isLoadingThumbnails, viewerPage, loads, tproc, downloads>>

IdleMerge == [pc |-> "idle", files |-> <<>>, i |-> 0, pages |-> <<>>]

\* useState initial values of the merge side
MergeInitState ==
  /\ isMerging = FALSE
  /\ adds = EmptyBag
  /\ nextId = 1
  /\ mproc = IdleMerge
  /\ merged = <<>>

IdleProc ==
  [pc |-> "idle", file |-> NoFile, cuts |-> <<>>, deleted |-> {}, rots |-> EmptyMap,
   active |-> <<>>, ranges |-> <<>>, i |-> 0]

\* useState initial values
InitState ==
  /\ mode = "merge"
  /\ files = <<>>
  /\ trimFile = NoFile
  /\ cutPoints = <<>>
  /\ deletedPages = {}
  /\ rotations = EmptyMap
  /\ isProcessing = FALSE
  /\ isLoadingThumbnails = FALSE
  /\ viewerPage = NoPage
  /\ error = NoError
  /\ loads = EmptyBag
  /\ tproc = IdleProc
  /\ downloads = <<>>
  /\ MergeInitState

Init == InitState

\* what is rendered
TrimSectionShown == mode = "trim" /\ trimFile # NoFile
LightboxShown == viewerPage # NoPage /\ trimFile # NoFile
IsDropDisabledTrim == trimFile # NoFile \/ isLoadingThumbnails

\* ----------------------------------------------------------- mode switch
HandleModeChange(newMode) ==
  /\ mode' = newMode
  /\ error' = NoError
  /\ files' = <<>>
  /\ trimFile' = NoFile
  /\ cutPoints' = <<>>
  /\ deletedPages' = {}
  /\ rotations' = EmptyMap
  /\ UNCHANGED <<mergeVars, isProcessing, isLoadingThumbnails, viewerPage, loads, tproc,
                 downloads>>

\* ------------------------------------------------------------ addTrimFile
\* What the user supplies: no PDF at all, or a list whose first PDF cannot be
\* read, or has k pages (0: an empty document).
NoPdf == -2
Unreadable == -1

\* addTrimFile up to its first await (getPageCount)
AddTrimFile(input) ==
  IF input = NoPdf
  THEN /\ error' = ErrOnlyPdf
       /\ UNCHANGED loads
  ELSE /\ error' = NoError
       /\ loads' = loads (+) SetToBag({[stage |-> "probe", probe |-> input]})

HandleDropTrim(input) ==
  /\ mode = "trim"
  /\ IF trimFile # NoFile
     THEN error' = ErrRemoveFirst /\ UNCHANGED loads
     ELSE AddTrimFile(input)
  /\ UNCHANGED <<mergeVars, mode, files, trimVars, isProcessing, isLoadingThumbnails, viewerPage,
                 tproc, downloads>>

HandleFileInputTrim(input) ==
  /\ mode = "trim"
  /\ ~IsDropDisabledTrim
  /\ AddTrimFile(input)
  /\ UNCHANGED <<mergeVars, mode, files, trimVars, isProcessing, isLoadingThumbnails, viewerPage,
                 tproc, downloads>>

\* the checks of the page count, a rejection followed by removeTrimFile's resets
ProbeDoneResetOnReject(l) ==
  /\ BagIn(l, loads)
  /\ l.stage = "probe"
  /\ IF l.probe = Unreadable \/ l.probe < 1
     THEN /\ error' = (IF l.probe = Unreadable THEN ErrUnreadable ELSE ErrEmpty)
          /\ loads' = loads (-) SetToBag({l})
          /\ trimFile' = NoFile
          /\ cutPoints' = <<>>
          /\ deletedPages' = {}
          /\ rotations' = EmptyMap
          /\ UNCHANGED isLoadingThumbnails
     ELSE /\ isLoadingThumbnails' = TRUE
          /\ loads' = (loads (-) SetToBag({l})) (+) SetToBag({[l EXCEPT !.stage = "thumbs"]})
          /\ UNCHANGED <<error, trimVars>>
  /\ UNCHANGED <<mergeVars, mode, files, isProcessing, viewerPage, tproc, downloads>>

\* getPageCount has settled: the checks of the page count, then generateThumbnails
ProbeDone(l) ==
  /\ BagIn(l, loads)
  /\ l.stage = "probe"
  /\ IF l.probe = Unreadable
     THEN /\ error' = ErrUnreadable
          /\ loads' = loads (-) SetToBag({l})
          /\ UNCHANGED isLoadingThumbnails
     ELSE IF l.probe < 1
     THEN /\ error' = ErrEmpty
          /\ loads' = loads (-) SetToBag({l})
          /\ UNCHANGED isLoadingThumbnails
     ELSE /\ isLoadingThumbnails' = TRUE
          /\ loads' = (loads (-) SetToBag({l})) (+) SetToBag({[l EXCEPT !.stage = "thumbs"]})
          /\ UNCHANGED error
  /\ UNCHANGED <<mergeVars, mode, files, trimVars, isProcessing, viewerPage, tproc, downloads>>

\* generateThumbnails has settled (ok) or thrown
ThumbnailsDone(l, ok) ==
  /\ BagIn(l, loads)
  /\ l.stage = "thumbs"
  /\ loads' = loads (-) SetToBag({l})
  /\ IF ok
     THEN /\ trimFile' = Doc(l.probe)
          /\ cutPoints' = <<>>
          /\ deletedPages' = {}
          /\ rotations' = EmptyMap
          /\ UNCHANGED error
     ELSE /\ error' = ErrPreviews
          /\ UNCHANGED trimVars
  /\ isLoadingThumbnails' = FALSE
  /\ UNCHANGED <<mergeVars, mode, files, isProcessing, viewerPage, tproc, downloads>>

\* ------------------------------------------------------------- cut points
\* the updater, the cap tested with > in place of >=
CutPointsAfterToggleLateCap(prev, afterPage) ==
  IF Includes(prev, afterPage) THEN FilterOut(prev, afterPage)
  ELSE IF Len(prev) > MAX_CUTS THEN prev
  ELSE SortAsc(Append(prev, afterPage))

\* the updater handed to setCutPoints
CutPointsAfterToggle(prev, afterPage) ==
  IF Includes(prev, afterPage) THEN FilterOut(prev, afterPage)
  ELSE IF Len(prev) >= MAX_CUTS THEN prev
  ELSE SortAsc(Append(prev, afterPage))

\* the setError calls of that updater
ErrorAfterCutToggle(prev, afterPage, err) ==
  IF Includes(prev, afterPage) THEN err
  ELSE IF Len(prev) >= MAX_CUTS THEN ErrMaxCuts
  ELSE NoError

ToggleCutPoint(afterPage) ==
  /\ cutPoints' = CutPointsAfterToggle(cutPoints, afterPage)
  /\ error' = ErrorAfterCutToggle(cutPoints, afterPage, error)
  /\ UNCHANGED <<mergeVars, mode, files, trimFile, deletedPages, rotations, isProcessing,
                 isLoadingThumbnails, viewerPage, loads, tproc, downloads>>

\* the cut line after thumbnail p
ClickCutLine(p) ==
  /\ TrimSectionShown
  /\ p \in 1..(trimFile.pageCount - 1)
  /\ p \notin deletedPages
  /\ ToggleCutPoint(p)

\* CUT BEFORE disabled on the deletion of the page shown, not of the one before
LightboxCutBeforeTestsShown ==
  /\ LightboxShown
  /\ ~(viewerPage <= 1 \/ viewerPage \in deletedPages)
  /\ ToggleCutPoint(viewerPage - 1)

\* CUT BEFORE of the light table
LightboxCutBefore ==
  /\ LightboxShown
  /\ ~(viewerPage <= 1 \/ (viewerPage - 1) \in deletedPages)
  /\ ToggleCutPoint(viewerPage - 1)

\* CUT AFTER of the light table
LightboxCutAfter ==
  /\ LightboxShown
  /\ ~(viewerPage >= trimFile.pageCount \/ viewerPage \in deletedPages)
  /\ ToggleCutPoint(viewerPage)

\* ---------------------------------------------------------------- deletion
\* the updater, the floor tested with > in place of >=
DeletedAfterToggleLateFloor(prev, pageNum, file) ==
  IF pageNum \in prev THEN prev \ {pageNum}
  ELSE IF file # NoFile /\ Cardinality(prev) > file.pageCount - 1 THEN prev
  ELSE prev \cup {pageNum}

\* the updater, the floor left out
DeletedAfterToggleNoFloor(prev, pageNum, file) ==
  IF pageNum \in prev THEN prev \ {pageNum} ELSE prev \cup {pageNum}

\* the updater handed to setDeletedPages
DeletedAfterToggle(prev, pageNum, file) ==
  IF pageNum \in prev THEN prev \ {pageNum}
  ELSE IF file # NoFile /\ Cardinality(prev) >= file.pageCount - 1 THEN prev
  ELSE prev \cup {pageNum}

\* the setError calls of that updater
ErrorAfterDeleteToggle(prev, pageNum, file, err) ==
  IF pageNum \in prev THEN err
  ELSE IF file # NoFile /\ Cardinality(prev) >= file.pageCount - 1 THEN ErrDeleteAll
  ELSE NoError

\* toggleDeletePage that also drops the cut point recorded on the page
ToggleDeletePagePruneCut(pageNum) ==
  /\ deletedPages' = DeletedAfterToggle(deletedPages, pageNum, trimFile)
  /\ error' = ErrorAfterDeleteToggle(deletedPages, pageNum, trimFile, error)
  /\ cutPoints' = FilterOut(cutPoints, pageNum)
  /\ UNCHANGED <<mergeVars, mode, files, trimFile, rotations, isProcessing,
                 isLoadingThumbnails, viewerPage, loads, tproc, downloads>>

\* toggleDeletePage that also drops the rotation entry of the page
ToggleDeletePageDropRotation(pageNum) ==
  /\ deletedPages' = DeletedAfterToggle(deletedPages, pageNum, trimFile)
  /\ error' = ErrorAfterDeleteToggle(deletedPages, pageNum, trimFile, error)
  /\ rotations' = [q \in DOMAIN rotations \ {pageNum} |-> rotations[q]]
  /\ UNCHANGED <<mergeVars, mode, files, trimFile, cutPoints, isProcessing,
                 isLoadingThumbnails, viewerPage, loads, tproc, downloads>>

ToggleDeletePage(pageNum) ==
  /\ deletedPages' = DeletedAfterToggle(deletedPages, pageNum, trimFile)
  /\ error' = ErrorAfterDeleteToggle(deletedPages, pageNum, trimFile, error)
  /\ UNCHANGED <<mergeVars, mode, files, trimFile, cutPoints, rotations, isProcessing,
                 isLoadingThumbnails, viewerPage, loads, tproc, downloads>>

ClickThumbDelete(p) ==
  /\ TrimSectionShown
  /\ p \in 1..trimFile.pageCount
  /\ ToggleDeletePage(p)

LightboxDelete ==
  /\ LightboxShown
  /\ ToggleDeletePage(viewerPage)

\* ---------------------------------------------------------------- rotation
\* the updater, a rotation of 0 stored like the others
RotationsAfterRotateStoreZero(prev, pageNum) ==
  LET newRotation == (RotationOf(prev, pageNum) + 90) % 360 IN
  [p \in DOMAIN prev \cup {pageNum} |-> IF p = pageNum THEN newRotation ELSE prev[p]]

\* the updater handed to setRotations
RotationsAfterRotate(prev, pageNum) ==
  LET newRotation == (RotationOf(prev, pageNum) + 90) % 360 IN
  IF newRotation = 0
  THEN [p \in DOMAIN prev \ {pageNum} |-> prev[p]]
  ELSE [p \in DOMAIN prev \cup {pageNum} |-> IF p = pageNum THEN newRotation ELSE prev[p]]

RotatePage(pageNum) ==
  /\ rotations' = RotationsAfterRotate(rotations, pageNum)
  /\ UNCHANGED <<mergeVars, mode, files, trimFile, cutPoints, deletedPages, isProcessing,
                 isLoadingThumbnails, viewerPage, error, loads, tproc, downloads>>

ClickThumbRotate(p) ==
  /\ TrimSectionShown
  /\ p \in 1..trimFile.pageCount
  /\ RotatePage(p)

LightboxRotate ==
  /\ LightboxShown
  /\ RotatePage(viewerPage)

\* ------------------------------------------------------------------ viewer
OpenViewer(p) ==
  /\ TrimSectionShown
  /\ p \in 1..trimFile.pageCount
  /\ p \notin deletedPages
  /\ viewerPage' = p
  /\ UNCHANGED <<mergeVars, mode, files, trimVars, isProcessing, isLoadingThumbnails, error, loads,
                 tproc, downloads>>

CloseViewer ==
  /\ LightboxShown
  /\ viewerPage' = NoPage
  /\ UNCHANGED <<mergeVars, mode, files, trimVars, isProcessing, isLoadingThumbnails, error, loads,
                 tproc, downloads>>

\* NEXT and ArrowRight/ArrowDown
ViewerNext ==
  /\ LightboxShown
  /\ viewerPage' = IF viewerPage < trimFile.pageCount THEN viewerPage + 1 ELSE viewerPage
  /\ UNCHANGED <<mergeVars, mode, files, trimVars, isProcessing, isLoadingThumbnails, error, loads,
                 tproc, downloads>>

\* PREV and ArrowLeft/ArrowUp
ViewerPrev ==
  /\ LightboxShown
  /\ viewerPage' = IF viewerPage > 1 THEN viewerPage - 1 ELSE viewerPage
  /\ UNCHANGED <<mergeVars, mode, files, trimVars, isProcessing, isLoadingThumbnails, error, loads,
                 tproc, downloads>>

\* ------------------------------------------------------------------ remove
RemoveTrimFile ==
  /\ TrimSectionShown
  /\ trimFile' = NoFile
  /\ cutPoints' = <<>>
  /\ deletedPages' = {}
  /\ rotations' = EmptyMap
  /\ error' = NoError
  /\ UNCHANGED <<mergeVars, mode, files, isProcessing, isLoadingThumbnails, viewerPage, loads, tproc,
                 downloads>>

\* ------------------------------------------------------------- processTrim
\* processTrim up to its first await: the guard, the two setState calls; the
\* call keeps the trimFile, cutPoints, deletedPages and rotations of the render
\* it was created in.
ProcessTrimCall ==
  IF trimFile = NoFile \/ ~HasModifications(cutPoints, deletedPages, rotations)
  THEN /\ tproc' = [IdleProc EXCEPT !.pc = "returned"]
       /\ UNCHANGED <<isProcessing, error, downloads>>
  ELSE /\ isProcessing' = TRUE
       /\ error' = NoError
       /\ tproc' = [IdleProc EXCEPT !.pc = "load", !.file = trimFile, !.cuts = cutPoints,
                                    !.deleted = deletedPages, !.rots = rotations]
       /\ downloads' = <<>>

\* the export button of the summary
ClickProcessTrim ==
  /\ TrimSectionShown
  /\ HasModifications(cutPoints, deletedPages, rotations)
  /\ ~isProcessing
  /\ ProcessTrimCall
  /\ UNCHANGED <<mergeVars, mode, files, trimVars, isLoadingThumbnails, viewerPage, loads>>

\* the catch block without setIsProcessing(false)
TrimCatchKeepProcessing ==
  /\ error' = ErrProcess
  /\ isProcessing' = isProcessing
  /\ tproc' = IdleProc

\* the catch block
TrimCatch ==
  /\ error' = ErrProcess
  /\ isProcessing' = FALSE
  /\ tproc' = IdleProc

\* the pages and the ranges computed from the deletedPages of the latest render
TrimLoadLiveDeleted(ok) ==
  /\ tproc.pc = "load"
  /\ IF ok
     THEN LET active == ActivePageNums(tproc.file.pageCount, deletedPages)
              ranges == IF Len(tproc.cuts) = 0 THEN <<>>
                        ELSE BuildRanges(active, tproc.cuts)
          IN /\ tproc' = [tproc EXCEPT
                            !.active = active, !.ranges = ranges, !.i = 0,
                            !.pc = IF Len(tproc.cuts) = 0 THEN "single"
                                   ELSE IF Len(ranges) = 0 THEN "timer" ELSE "part"]
             /\ UNCHANGED <<error, isProcessing>>
     ELSE TrimCatch
  /\ UNCHANGED <<mergeVars, mode, files, trimVars, isLoadingThumbnails, viewerPage, loads, downloads>>

\* arrayBuffer() and PDFDocument.load have settled (ok) or one has thrown; on
\* success the pages and the ranges are computed before the next await.
TrimLoad(ok) ==
  /\ tproc.pc = "load"
  /\ IF ok
     THEN LET active == ActivePageNums(tproc.file.pageCount, tproc.deleted)
              ranges == IF Len(tproc.cuts) = 0 THEN <<>>
                        ELSE BuildRanges(active, tproc.cuts)
          IN /\ tproc' = [tproc EXCEPT
                            !.active = active, !.ranges = ranges, !.i = 0,
                            !.pc = IF Len(tproc.cuts) = 0 THEN "single"
                                   ELSE IF Len(ranges) = 0 THEN "timer" ELSE "part"]
             /\ UNCHANGED <<error, isProcessing>>
     ELSE TrimCatch
  /\ UNCHANGED <<mergeVars, mode, files, trimVars, isLoadingThumbnails, viewerPage, loads, downloads>>

\* no cuts: the single document is assembled, saved and downloaded, or fails
TrimAssembleSingle(ok) ==
  /\ tproc.pc = "single"
  /\ IF ok
     THEN /\ downloads' = Append(downloads,
                                 [name |-> TrimmedName(tproc.file.name),
                                  pages |-> PagesWithRotation(tproc.active, tproc.rots)])
          /\ tproc' = [tproc EXCEPT !.pc = "timer"]
          /\ UNCHANGED <<error, isProcessing>>
     ELSE TrimCatch /\ UNCHANGED downloads
  /\ UNCHANGED <<mergeVars, mode, files, trimVars, isLoadingThumbnails, viewerPage, loads>>

\* one turn of the loop over ranges, the next turn taken without the wait
TrimAssemblePartNoPace(ok) ==
  /\ tproc.pc = "part"
  /\ LET rangePages == tproc.ranges[tproc.i + 1]
         last == ~(tproc.i < Len(tproc.ranges) - 1)
     IN IF Len(rangePages) = 0
        THEN /\ tproc' = [tproc EXCEPT !.i = tproc.i + 1,
                                       !.pc = IF last THEN "timer" ELSE "part"]
             /\ UNCHANGED <<error, isProcessing, downloads>>
        ELSE IF ok
        THEN /\ downloads' = Append(downloads,
                                    [name |-> PartName(tproc.file.name, tproc.i),
                                     pages |-> PagesWithRotation(rangePages, tproc.rots)])
             /\ tproc' = [tproc EXCEPT !.i = IF last THEN tproc.i ELSE tproc.i + 1,
                                       !.pc = IF last THEN "timer" ELSE "part"]
             /\ UNCHANGED <<error, isProcessing>>
        ELSE TrimCatch /\ UNCHANGED downloads
  /\ UNCHANGED <<mergeVars, mode, files, trimVars, isLoadingThumbnails, viewerPage, loads>>

\* one turn of the loop over ranges: part i is assembled, saved and downloaded,
\* or fails
TrimAssemblePart(ok) ==
  /\ tproc.pc = "part"
  /\ LET rangePages == tproc.ranges[tproc.i + 1]
         last == ~(tproc.i < Len(tproc.ranges) - 1)
     IN IF Len(rangePages) = 0
        THEN /\ tproc' = [tproc EXCEPT !.i = tproc.i + 1,
                                       !.pc = IF last THEN "timer" ELSE "part"]
             /\ UNCHANGED <<error, isProcessing, downloads>>
        ELSE IF ok
        THEN /\ downloads' = Append(downloads,
                                    [name |-> PartName(tproc.file.name, tproc.i),
                                     pages |-> PagesWithRotation(rangePages, tproc.rots)])
             /\ tproc' = [tproc EXCEPT !.pc = IF last THEN "timer" ELSE "pace"]
             /\ UNCHANGED <<error, isProcessing>>
        ELSE TrimCatch /\ UNCHANGED downloads
  /\ UNCHANGED <<mergeVars, mode, files, trimVars, isLoadingThumbnails, viewerPage, loads>>

\* the 300 ms between two parts has elapsed
TrimPace ==
  /\ tproc.pc = "pace"
  /\ tproc' = [tproc EXCEPT !.i = tproc.i + 1, !.pc = "part"]
  /\ UNCHANGED <<mergeVars, mode, files, trimVars, isProcessing, isLoadingThumbnails, viewerPage,
                 error, loads, downloads>>

\* the callback of the timer, the rotations left in place
TrimTimerKeepRotations ==
  /\ tproc.pc = "timer"
  /\ trimFile' = NoFile
  /\ cutPoints' = <<>>
  /\ deletedPages' = {}
  /\ isProcessing' = FALSE
  /\ tproc' = IdleProc
  /\ UNCHANGED <<mergeVars, mode, files, rotations, isLoadingThumbnails, viewerPage, error,
                 loads, downloads>>

\* the callback of setTimeout(..., 1000)
TrimTimer ==
  /\ tproc.pc = "timer"
  /\ trimFile' = NoFile
  /\ cutPoints' = <<>>
  /\ deletedPages' = {}
  /\ rotations' = EmptyMap
  /\ isProcessing' = FALSE
  /\ tproc' = IdleProc
  /\ UNCHANGED <<mergeVars, mode, files, isLoadingThumbnails, viewerPage, error, loads, downloads>>

\* ------------------------------------------------------------- merge mode
\* Array.prototype.slice(0, end)
Slice(arr, end) ==
  LET e == IF end < 0 THEN (IF Len(arr) + end < 0 THEN 0 ELSE Len(arr) + end)
           ELSE IF end > Len(arr) THEN Len(arr) ELSE end
  IN SubSeq(arr, 1, e)

\* The PDF files the user supplies to the merge list, by the id they are given:
\* documents of 1 and 2 pages, a document getPageCount cannot read (null), an
\* empty document, and so on in turn.
PageCountOf(id) == IF id % 4 = 3 THEN Unreadable ELSE id % 4

FileOf(id) == [id |-> id, name |-> DocName(id), pageCount |-> PageCountOf(id)]

\* what is rendered
MergeSectionShown == mode = "merge" /\ Len(files) > 0
IsDropDisabledMerge == Len(files) >= MAX_FILES

\* addFiles up to its await (Promise.all of the getPageCount calls), handed a
\* list of which n files pass the type filter
AddFiles(n) ==
  IF n = 0
  THEN /\ error' = ErrOnlyPdf
       /\ UNCHANGED <<adds, nextId>>
  ELSE LET availableSlots == MAX_FILES - Len(files)
           filesToAdd == Slice([k \in 1..n |-> k], availableSlots)
       IN /\ error' = IF n > availableSlots THEN ErrSlots(availableSlots) ELSE NoError
          /\ adds' = adds (+) SetToBag({[files |->
                        [k \in 1..Len(filesToAdd) |-> FileOf(nextId + k - 1)]]})
          /\ nextId' = nextId + Len(filesToAdd)

HandleDropMerge(n) ==
  /\ mode = "merge"
  /\ IF Len(files) >= MAX_FILES
     THEN error' = ErrMaxFiles /\ UNCHANGED <<adds, nextId>>
     ELSE AddFiles(n)
  /\ UNCHANGED <<mode, files, isMerging, mproc, merged, trimSide>>

HandleFileInputMerge(n) ==
  /\ mode = "merge"
  /\ ~IsDropDisabledMerge
  /\ AddFiles(n)
  /\ UNCHANGED <<mode, files, isMerging, mproc, merged, trimSide>>

\* Promise.all has settled: setFiles((prev) => [...prev, ...processedFiles])
AddFilesDone(a) ==
  /\ BagIn(a, adds)
  /\ adds' = adds (-) SetToBag({a})
  /\ files' = files \o a.files
  /\ UNCHANGED <<mode, error, nextId, isMerging, mproc, merged, trimSide>>

\* prev.filter((f) => f.id !== id)
RECURSIVE FilterOutId(_, _)
FilterOutId(list, id) ==
  IF list = <<>> THEN <<>>
  ELSE IF Head(list).id = id THEN FilterOutId(Tail(list), id)
       ELSE <<Head(list)>> \o FilterOutId(Tail(list), id)

RemoveFile(id) ==
  /\ MergeSectionShown
  /\ \E k \in 1..Len(files) : files[k].id = id
  /\ files' = FilterOutId(files, id)
  /\ error' = NoError
  /\ UNCHANGED <<mode, adds, nextId, isMerging, mproc, merged, trimSide>>

\* Reorder.Group onReorder={setFiles}: the card at position k is dragged past
\* its neighbour
Reorder(k) ==
  /\ MergeSectionShown
  /\ k \in 1..(Len(files) - 1)
  /\ files' = [files EXCEPT ![k] = files[k + 1], ![k + 1] = files[k]]
  /\ UNCHANGED <<mode, error, adds, nextId, isMerging, mproc, merged, trimSide>>

\* link.download of the merged artifact (the Date.now() part left out)
MergedName == "merged-"

\* mergePDFs up to its first await: the guard, the two setState calls; the call
\* keeps the files of the render it was created in.
MergePDFsCall ==
  IF Len(files) < 2
  THEN UNCHANGED <<isMerging, error, mproc, merged>>
  ELSE /\ isMerging' = TRUE
       /\ error' = NoError
       /\ mproc' = [IdleMerge EXCEPT !.pc = "file", !.files = files]
       /\ merged' = <<>>

\* the merge button
ClickMerge ==
  /\ MergeSectionShown
  /\ Len(files) >= 2
  /\ ~isMerging
  /\ MergePDFsCall
  /\ UNCHANGED <<mode, files, adds, nextId, trimSide>>

\* the catch block without setIsMerging(false)
MergeCatchKeepMerging ==
  /\ error' = ErrMerge
  /\ isMerging' = isMerging
  /\ mproc' = IdleMerge

\* the catch block
MergeCatch ==
  /\ error' = ErrMerge
  /\ isMerging' = FALSE
  /\ mproc' = IdleMerge

\* files.reduce((sum, f) => sum + (f.pageCount || 0), 0)
RECURSIVE TotalPages(_)
TotalPages(list) ==
  IF list = <<>> THEN 0
  ELSE (IF Head(list).pageCount = Unreadable THEN 0 ELSE Head(list).pageCount)
       + TotalPages(Tail(list))

\* the pages of a file, copied last page first
CopiedPagesReversed(pdfFile) ==
  [q \in 1..pdfFile.pageCount |-> [id |-> pdfFile.id, page |-> pdfFile.pageCount + 1 - q]]

\* mergedPdf.copyPages(pdf, pdf.getPageIndices()): every page of the file, in
\* the file's order
CopiedPages(pdfFile) ==
  [q \in 1..pdfFile.pageCount |-> [id |-> pdfFile.id, page |-> q]]

\* one turn of the loop over files: the file is read, loaded and its pages are
\* copied and added (ok), or one of the three throws; PDFDocument.load throws on
\* the files getPageCount could not read.
MergeCopyFile(ok) ==
  /\ mproc.pc = "file"
  /\ LET pdfFile == mproc.files[mproc.i + 1] IN
     IF ok /\ pdfFile.pageCount # Unreadable
     THEN /\ mproc' = [mproc EXCEPT
                         !.pages = mproc.pages \o CopiedPages(pdfFile),
                         !.i = mproc.i + 1,
                         !.pc = IF mproc.i + 1 < Len(mproc.files) THEN "file" ELSE "save"]
          /\ UNCHANGED <<error, isMerging>>
     ELSE MergeCatch
  /\ UNCHANGED <<mode, files, adds, nextId, merged, trimSide>>

\* mergedPdf.save() has settled (ok) and the artifact is downloaded, or has thrown
MergeSave(ok) ==
  /\ mproc.pc = "save"
  /\ IF ok
     THEN /\ merged' = Append(merged, [name |-> MergedName, pages |-> mproc.pages])
          /\ mproc' = [mproc EXCEPT !.pc = "timer"]
          /\ UNCHANGED <<error, isMerging>>
     ELSE MergeCatch /\ UNCHANGED merged
  /\ UNCHANGED <<mode, files, adds, nextId, trimSide>>

\* the callback of setTimeout(..., 1000)
MergeTimer ==
  /\ mproc.pc = "timer"
  /\ files' = <<>>
  /\ isMerging' = FALSE
  /\ mproc' = IdleMerge
  /\ UNCHANGED <<mode, error, adds, nextId, merged, trimSide>>

\* -------------------------------------------------------- the session
Modes == {"merge", "trim"}
LoadInputs == {NoPdf, Unreadable} \cup 0..MaxPages

\* an addTrimFile call that will suspend is started while fewer than max are
\* suspended
LoadAllowed(input, max) == input = NoPdf \/ BagCardinality(loads) < max

TrimExport ==
  \/ \E ok \in BOOLEAN : TrimLoad(ok)
  \/ \E ok \in BOOLEAN : TrimAssembleSingle(ok)
  \/ \E ok \in BOOLEAN : TrimAssemblePart(ok)
  \/ TrimPace
  \/ TrimTimer

Next ==
  \/ \E m \in Modes : HandleModeChange(m)
  \/ \E input \in LoadInputs : LoadAllowed(input, MaxLoads) /\ HandleDropTrim(input)
  \/ \E input \in LoadInputs : LoadAllowed(input, MaxLoads) /\ HandleFileInputTrim(input)
  \/ \E l \in BagToSet(loads) : ProbeDone(l)
  \/ \E l \in BagToSet(loads), ok \in BOOLEAN : ThumbnailsDone(l, ok)
  \/ \E p \in 1..MaxPages : ClickCutLine(p)
  \/ LightboxCutBefore
  \/ LightboxCutAfter
  \/ \E p \in 1..MaxPages : ClickThumbDelete(p)
  \/ LightboxDelete
  \/ \E p \in 1..MaxRotPage : ClickThumbRotate(p)
  \/ LightboxRotate /\ viewerPage <= MaxRotPage
  \/ \E p \in 1..MaxPages : OpenViewer(p)
  \/ CloseViewer
  \/ ViewerNext
  \/ ViewerPrev
  \/ RemoveTrimFile
  \/ ClickProcessTrim
  \/ TrimExport

Spec == Init /\ [][Next]_vars

\* ------------------------------------- the session on one long document
\* The session in which every document loaded has CutDocPages pages and the
\* user works with the cut controls, the viewer and the export.
CutsNext ==
  \/ \E m \in Modes : HandleModeChange(m)
  \/ LoadAllowed(CutDocPages, MaxLoads) /\ HandleDropTrim(CutDocPages)
  \/ LoadAllowed(CutDocPages, MaxLoads) /\ HandleFileInputTrim(CutDocPages)
  \/ \E l \in BagToSet(loads) : ProbeDone(l)
  \/ \E l \in BagToSet(loads), ok \in BOOLEAN : ThumbnailsDone(l, ok)
  \/ \E p \in 1..CutDocPages : ClickCutLine(p)
  \/ LightboxCutBefore
  \/ LightboxCutAfter
  \/ \E p \in 1..CutDocPages : OpenViewer(p)
  \/ CloseViewer
  \/ ViewerNext
  \/ ViewerPrev
  \/ RemoveTrimFile
  \/ ClickProcessTrim
  \/ \E ok \in BOOLEAN : TrimLoad(ok)
  \/ \E ok \in BOOLEAN : TrimAssemblePart(ok)
  \/ TrimPace
  \/ TrimTimer

SpecCuts == Init /\ [][CutsNext]_vars

\* ------------------------------------------------- what the summary shows
\* the number announced on the export button: SPLIT INTO ${cutPoints.length + 1} FILES
SplitButtonCount(cuts) == Len(cuts) + 1

\* getPartForPage: part starts at 1 and goes up by one for each cut below pageNum
RECURSIVE GetPartForPage(_, _)
GetPartForPage(cuts, pageNum) ==
  IF cuts = <<>> THEN 1
  ELSE (IF pageNum > Head(cuts) THEN 1 ELSE 0) + GetPartForPage(Tail(cuts), pageNum)

\* the text of a range in the preview: `${first}` for one page, else
\* `${first}-${last}` (the dash stands for the en dash)
PreviewLabel(currentRange) ==
  IF Len(currentRange) = 1
  THEN ToString(currentRange[1])
  ELSE ToString(currentRange[1]) \o "-" \o ToString(currentRange[Len(currentRange)])

\* the loop of the preview, currentRange not emptied after a push to ranges
RECURSIVE PreviewLoopKeepRange(_, _, _, _, _)
PreviewLoopKeepRange(activePages, k, sortedCuts, ranges, currentRange) ==
  IF k > Len(activePages)
  THEN IF Len(currentRange) > 0 THEN Append(ranges, PreviewLabel(currentRange)) ELSE ranges
  ELSE LET pushed == Append(currentRange, activePages[k]) IN
       IF Includes(sortedCuts, activePages[k])
       THEN PreviewLoopKeepRange(activePages, k + 1, sortedCuts,
                                 Append(ranges, PreviewLabel(pushed)), pushed)
       ELSE PreviewLoopKeepRange(activePages, k + 1, sortedCuts, ranges, pushed)

\* the loop of the preview over activePages: ranges collects the texts
RECURSIVE PreviewLoop(_, _, _, _, _)
PreviewLoop(activePages, k, sortedCuts, ranges, currentRange) ==
  IF k > Len(activePages)
  THEN IF Len(currentRange) > 0 THEN Append(ranges, PreviewLabel(currentRange)) ELSE ranges
  ELSE LET pushed == Append(currentRange, activePages[k]) IN
       IF Includes(sortedCuts, activePages[k])
       THEN PreviewLoop(activePages, k + 1, sortedCuts,
                        IF Len(pushed) > 0 THEN Append(ranges, PreviewLabel(pushed)) ELSE ranges,
                        <<>>)
       ELSE PreviewLoop(activePages, k + 1, sortedCuts, ranges, pushed)

\* the PART badges of the summary, rendered when cutPoints.length > 0
SplitPartsPreview(file, cuts, deleted) ==
  IF Len(cuts) > 0
  THEN PreviewLoop(ActivePageNums(file.pageCount, deleted), 1, SortAsc(cuts), <<>>, <<>>)
  ELSE <<>>

\* ------------------------------------------- processTrim as a function
\* the ascending array of the members of a set of numbers
RECURSIVE SetToArray(_)
SetToArray(S) ==
  IF S = {} THEN <<>>
  ELSE LET m == CHOOSE x \in S : \A y \in S : x <= y
       IN <<m>> \o SetToArray(S \ {m})

Min(a, b) == IF a < b THEN a ELSE b

\* The states processTrim can be called in: a loaded document of k pages, an
\* ascending cutPoints array of at most MAX_CUTS numbers of 1..k-1, at least one
\* page not deleted, rotation entries among 90, 180, 270.
PlanInit ==
  /\ mode = "trim"
  /\ files = <<>>
  /\ \E k \in 1..PlanMaxPages :
       /\ trimFile = Doc(k)
       /\ \E C \in SUBSET (1..(k - 1)) :
            /\ Cardinality(C) <= MAX_CUTS
            /\ cutPoints = SetToArray(C)
       /\ \E D \in SUBSET (1..k) :
            /\ Cardinality(D) <= k - 1
            /\ deletedPages = D
       /\ \E R \in SUBSET (1..Min(k, PlanMaxRotPage)) :
            rotations \in [R -> {90, 180, 270}]
  /\ isProcessing = FALSE
  /\ isLoadingThumbnails = FALSE
  /\ viewerPage = NoPage
  /\ error = NoError
  /\ loads = EmptyBag
  /\ tproc = IdleProc
  /\ downloads = <<>>
  /\ MergeInitState

\* processTrim() called on the state as it is
PlanCall ==
  /\ tproc.pc = "idle"
  /\ ~isProcessing
  /\ ProcessTrimCall
  /\ UNCHANGED <<mergeVars, mode, files, trimVars, isLoadingThumbnails, viewerPage, loads>>

PlanNext ==
  \/ PlanCall
  \/ TrimExport

SpecPlan == PlanInit /\ [][PlanNext]_vars

\* ---------------------------------------------------- the merge session
MergeNext ==
  \/ \E m \in Modes : HandleModeChange(m)
  \/ \E n \in 0..MaxBatch :
       /\ BagCardinality(adds) < MaxAdds
       /\ nextId + n - 1 <= MaxFileIds
       /\ HandleDropMerge(n)
  \/ \E n \in 0..MaxBatch :
       /\ BagCardinality(adds) < MaxAdds
       /\ nextId + n - 1 <= MaxFileIds
       /\ HandleFileInputMerge(n)
  \/ \E a \in BagToSet(adds) : AddFilesDone(a)
  \/ \E id \in 1..MaxFileIds : RemoveFile(id)
  \/ \E k \in 1..MaxFileIds : Reorder(k)
  \/ ClickMerge
  \/ \E ok \in BOOLEAN : MergeCopyFile(ok)
  \/ \E ok \in BOOLEAN : MergeSave(ok)
  \/ MergeTimer

SpecMerge == Init /\ [][MergeNext]_vars

\* ------------------------------------------- the filling of the merge list
\* The session in which the user adds files to the merge list, by drop and by
\* file input, removes them and switches mode.
AddsNext ==
  \/ \E m \in Modes : HandleModeChange(m)
  \/ \E n \in 0..MaxBatch :
       /\ BagCardinality(adds) < MaxAdds
       /\ nextId + n - 1 <= AddsFileIds
       /\ HandleDropMerge(n)
  \/ \E n \in 0..MaxBatch :
       /\ BagCardinality(adds) < MaxAdds
       /\ nextId + n - 1 <= AddsFileIds
       /\ HandleFileInputMerge(n)
  \/ \E a \in BagToSet(adds) : AddFilesDone(a)
  \/ \E id \in 1..AddsFileIds : RemoveFile(id)

SpecAdds == Init /\ [][AddsNext]_vars

\* ------------------------------------------- the intake of both modes
\* The session in which the user supplies files (drop and file input, in both
\* modes), removes them, switches mode and sets cut points and deletions on the
\* loaded document.
IntakeNext ==
  \/ \E m \in Modes : HandleModeChange(m)
  \/ \E n \in 0..MaxBatch :
       /\ BagCardinality(adds) < MaxAdds
       /\ nextId + n - 1 <= IntakeFileIds
       /\ HandleDropMerge(n)
  \/ \E n \in 0..MaxBatch :
       /\ BagCardinality(adds) < MaxAdds
       /\ nextId + n - 1 <= IntakeFileIds
       /\ HandleFileInputMerge(n)
  \/ \E a \in BagToSet(adds) : AddFilesDone(a)
  \/ \E id \in 1..IntakeFileIds : RemoveFile(id)
  \/ \E input \in LoadInputs : LoadAllowed(input, IntakeLoads) /\ HandleDropTrim(input)
  \/ \E input \in LoadInputs : LoadAllowed(input, IntakeLoads) /\ HandleFileInputTrim(input)
  \/ \E l \in BagToSet(loads) : ProbeDone(l)
  \/ \E l \in BagToSet(loads), ok \in BOOLEAN : ThumbnailsDone(l, ok)
  \/ \E p \in 1..MaxPages : ClickCutLine(p)
  \/ \E p \in 1..MaxPages : ClickThumbDelete(p)
  \/ RemoveTrimFile

SpecIntake == Init /\ [][IntakeNext]_vars

\* ------------------------------------------- the editing of one document
\* A document of EditDocPages pages has been loaded in trim mode; the user works
\* with the thumbnails' buttons, the cut lines and the light table.
EditInit ==
  /\ mode = "trim"
  /\ files = <<>>
  /\ trimFile = Doc(EditDocPages)
  /\ cutPoints = <<>>
  /\ deletedPages = {}
  /\ rotations = EmptyMap
  /\ isProcessing = FALSE
  /\ isLoadingThumbnails = FALSE
  /\ viewerPage = NoPage
  /\ error = NoError
  /\ loads = EmptyBag
  /\ tproc = IdleProc
  /\ downloads = <<>>
  /\ MergeInitState

EditNext ==
  \/ \E p \in 1..EditDocPages : ClickCutLine(p)
  \/ LightboxCutBefore
  \/ LightboxCutAfter
  \/ \E p \in 1..EditDocPages : ClickThumbDelete(p)
  \/ LightboxDelete
  \/ \E p \in 1..MaxRotPage : ClickThumbRotate(p)
  \/ LightboxRotate /\ viewerPage <= MaxRotPage
  \/ \E p \in 1..EditDocPages : OpenViewer(p)
  \/ CloseViewer
  \/ ViewerNext
  \/ ViewerPrev

SpecEdit == EditInit /\ [][EditNext]_vars

\* ------------------------------------------- the exports of both modes
MergeExport ==
  \/ \E ok \in BOOLEAN : MergeCopyFile(ok)
  \/ \E ok \in BOOLEAN : MergeSave(ok)
  \/ MergeTimer

\* The session in which the user supplies files in both modes, edits, removes,
\* switches mode and starts the exports of both modes. A promise that is awaited
\* settles and a timer that is set fires: the steps of a call in flight are
\* taken under weak fairness, the user's steps under none.
LiveNext ==
  \/ \E m \in Modes : HandleModeChange(m)
  \/ \E input \in LoadInputs : LoadAllowed(input, MaxLoads) /\ HandleDropTrim(input)
  \/ \E l \in BagToSet(loads) : ProbeDone(l)
  \/ \E l \in BagToSet(loads), ok \in BOOLEAN : ThumbnailsDone(l, ok)
  \/ \E p \in 1..MaxPages : ClickCutLine(p)
  \/ \E p \in 1..MaxPages : ClickThumbDelete(p)
  \/ RemoveTrimFile
  \/ ClickProcessTrim
  \/ TrimExport
  \/ \E n \in 0..MaxBatch :
       /\ BagCardinality(adds) < MaxAdds
       /\ nextId + n - 1 <= LiveFileIds
       /\ HandleDropMerge(n)
  \/ \E a \in BagToSet(adds) : AddFilesDone(a)
  \/ \E id \in 1..LiveFileIds : RemoveFile(id)
  \/ ClickMerge
  \/ MergeExport

SpecLive == Init /\ [][LiveNext]_vars /\ WF_vars(TrimExport) /\ WF_vars(MergeExport)

\* ------------------------------------------- the auto-merge version
\* The version of the page that has the merge list only (no mode, no merge
\* button): addFiles, removeFile, handleDrop, handleFileInput, the list and
\* mergePDFs are the code of merge mode, and mergePDFs is called by an effect.
\*
\* The effect runs after each render in which files or isMerging has changed: it
\* clears the timer it had set and, if files.length >= 2 && !isMerging, sets one
\* of 800 ms; so a timer is armed exactly when the condition holds, and it calls
\* the mergePDFs of the latest list.
AutoMergeArmed == Len(files) >= 2 /\ ~isMerging

\* the callback of the effect's timer
AutoMergeTimer ==
  /\ AutoMergeArmed
  /\ MergePDFsCall
  /\ UNCHANGED <<mode, files, adds, nextId, trimSide>>

AutoNext ==
  \/ \E n \in 0..MaxBatch :
       /\ BagCardinality(adds) < MaxAdds
       /\ nextId + n - 1 <= AutoFileIds
       /\ HandleDropMerge(n)
  \/ \E n \in 0..MaxBatch :
       /\ BagCardinality(adds) < MaxAdds
       /\ nextId + n - 1 <= AutoFileIds
       /\ HandleFileInputMerge(n)
  \/ \E a \in BagToSet(adds) : AddFilesDone(a)
  \/ \E id \in 1..AutoFileIds : RemoveFile(id)
  \/ \E k \in 1..AutoFileIds : Reorder(k)
  \/ AutoMergeTimer
  \/ MergeExport

SpecAuto == Init /\ [][AutoNext]_vars

\* ======================================================== the claims
\* The export in flight has delivered all it delivers (the reset timer is armed).
ExportDone == tproc.pc = "timer"

\* The page ordinals of each delivered artifact, in delivery order.
Parts ==
  [k \in 1..Len(downloads) |->
     [j \in 1..Len(downloads[k].pages) |-> downloads[k].pages[j].page]]

RECURSIVE Concat(_)
Concat(seqs) == IF seqs = <<>> THEN <<>> ELSE Head(seqs) \o Concat(Tail(seqs))

StrictlyIncreasing(arr) == \A j \in 1..(Len(arr) - 1) : arr[j] < arr[j + 1]

\* The surviving pages of the export in flight, by the data model's definition:
\* the ordinals 1..pageCount that are not deleted, ascending.
SurvivingSet == (1..tproc.file.pageCount) \ tproc.deleted
SurvivingSeq == SetToArray(SurvivingSet)

PartIndex(p) == CHOOSE k \in 1..Len(Parts) : p \in Elems(Parts[k])

\* C1: when an export is done, the parts concatenated in output order are exactly
\* the surviving sequence: every surviving page is in exactly one part, no part
\* holds a deleted page, each part is strictly increasing, and the parts are in
\* ascending order of their first (least) ordinal.
C1_PartitionCoverage ==
  ExportDone =>
    /\ Concat(Parts) = SurvivingSeq
    /\ \A p \in SurvivingSet :
         Cardinality({k \in 1..Len(Parts) : p \in Elems(Parts[k])}) = 1
    /\ \A k \in 1..Len(Parts) :
         /\ Elems(Parts[k]) \cap tproc.deleted = {}
         /\ StrictlyIncreasing(Parts[k])
    /\ \A k \in 1..(Len(Parts) - 1) :
         Len(Parts[k]) > 0 /\ Len(Parts[k + 1]) > 0 /\ Parts[k][1] < Parts[k + 1][1]

C1_Witness ==
  /\ ExportDone
  /\ Len(downloads) >= 3
  /\ tproc.deleted # {}
  /\ Elems(tproc.cuts) \cap tproc.deleted # {}

\* C2: when an export is done, two pages that are consecutive in the surviving
\* sequence are in different parts exactly when the first of them is a cut
\* point; with pageCount 5, cuts {2,3} and page 3 deleted the parts are [1,2]
\* and [4,5].
C2_BoundariesOnSurviving ==
  ExportDone =>
    /\ \A j \in 1..(Len(SurvivingSeq) - 1) :
         (PartIndex(SurvivingSeq[j]) # PartIndex(SurvivingSeq[j + 1]))
           <=> (SurvivingSeq[j] \in Elems(tproc.cuts))
    /\ (tproc.file.pageCount = 5 /\ tproc.cuts = <<2, 3>> /\ tproc.deleted = {3})
         => Parts = << <<1, 2>>, <<4, 5>> >>

C2_Witness ==
  /\ ExportDone
  /\ tproc.file.pageCount = 5
  /\ tproc.cuts = <<2, 3>>
  /\ tproc.deleted = {3}
  /\ Len(downloads) = 2

\* processTrim has been called on the loaded document and has returned or has
\* delivered all it delivers.
CallOver == trimFile # NoFile /\ tproc.pc \in {"timer", "returned"}

\* C3 as stated: called with no cut points, processTrim delivers exactly one
\* part, the whole surviving sequence, whatever deletedPages and rotations are.
C3_Original ==
  (CallOver /\ cutPoints = <<>>) =>
    /\ Len(downloads) = 1
    /\ Parts[1] = SetToArray((1..trimFile.pageCount) \ deletedPages)

\* C3 amended: called with no cut points and at least one deleted page or rotation
\* entry, processTrim delivers exactly one part, the whole surviving sequence;
\* called with no cut points, no deleted page and no rotation entry it returns
\* at once and delivers nothing.
C3_NoCutOnePart ==
  (CallOver /\ cutPoints = <<>>) =>
    IF deletedPages = {} /\ DOMAIN rotations = {}
    THEN downloads = <<>> /\ tproc.pc = "returned"
    ELSE /\ Len(downloads) = 1
         /\ Parts[1] = SetToArray((1..trimFile.pageCount) \ deletedPages)

C3_Witness ==
  /\ CallOver
  /\ cutPoints = <<>>
  /\ deletedPages = {}
  /\ DOMAIN rotations # {}
  /\ Len(downloads) = 1
  /\ Len(Parts[1]) = trimFile.pageCount

\* C4: no range built and no artifact delivered by processTrim is empty.
C4_NoEmptyPart ==
  /\ \A k \in 1..Len(tproc.ranges) : Len(tproc.ranges[k]) > 0
  /\ \A k \in 1..Len(downloads) : Len(downloads[k].pages) > 0
  /\ tproc.pc = "single" => Len(tproc.active) > 0

\* a cut point on the last surviving page, and a cut point on a deleted page
C4_Witness ==
  /\ ExportDone
  /\ Len(tproc.cuts) = 2
  /\ tproc.cuts[1] \in tproc.deleted
  /\ tproc.cuts[2] = SurvivingSeq[Len(SurvivingSeq)]
  /\ tproc.cuts[2] < tproc.file.pageCount

\* C5 as stated: an export of k > 1 parts names them base-part1 .. base-partk in
\* output order, and an export of a single part names it base-trimmed.
C5_Naming ==
  ExportDone =>
    /\ Len(downloads) > 1 =>
         \A k \in 1..Len(downloads) :
           downloads[k].name =
             [base |-> BaseName(tproc.file.name), suffix |-> "-part", n |-> k]
    /\ Len(downloads) = 1 =>
         downloads[1].name =
           [base |-> BaseName(tproc.file.name), suffix |-> "-trimmed", n |-> 0]

\* C6: a toggleDeletePage step on a page that is not deleted, taken when
\* pageCount - 1 pages of the loaded document are deleted, leaves deletedPages as
\* it was and sets the error to the limit message.
C6_DeletionFloor ==
  [][\A p \in 1..(MaxPages + 1) :
       ( /\ trimFile # NoFile
         /\ p \notin deletedPages
         /\ Cardinality(deletedPages) = trimFile.pageCount - 1
         /\ ToggleDeletePage(p) )
       => (deletedPages' = deletedPages /\ error' = ErrDeleteAll)]_vars

\* the refused deletion has happened on a document of several pages
C6_Witness ==
  /\ trimFile # NoFile
  /\ trimFile.pageCount >= 2
  /\ Cardinality(deletedPages) = trimFile.pageCount - 1
  /\ error = ErrDeleteAll

\* C7: whenever a document is loaded, deletedPages has at most pageCount - 1
\* members and some page of 1..pageCount is not deleted.
C7_OnePageSurvives ==
  trimFile # NoFile =>
    /\ Cardinality(deletedPages) <= trimFile.pageCount - 1
    /\ \E p \in 1..trimFile.pageCount : p \notin deletedPages

\* all pages but one are deleted, and an export is in flight
C7_Witness ==
  /\ trimFile # NoFile
  /\ trimFile.pageCount >= 2
  /\ Cardinality(deletedPages) = trimFile.pageCount - 1
  /\ isProcessing

\* C8 as stated: whenever a document is loaded, every cut point lies in
\* 1..pageCount - 1.
C8_CutPointsInRange ==
  trimFile # NoFile =>
    \A c \in Elems(cutPoints) : 1 <= c /\ c <= trimFile.pageCount - 1

\* C9: a toggleCutPoint step on a page that is not a cut point, taken when there
\* are MAX_CUTS cut points, leaves cutPoints as it was and sets the error to the
\* limit message; and no step leaves more than MAX_CUTS cut points (there are
\* none to begin with).
C9_CutPointCap ==
  [][ /\ Len(cutPoints) <= MAX_CUTS => Len(cutPoints') <= MAX_CUTS
      /\ \A p \in 0..(CutDocPages + 1) :
           ( /\ Len(cutPoints) >= MAX_CUTS
             /\ ~Includes(cutPoints, p)
             /\ ToggleCutPoint(p) )
           => (cutPoints' = cutPoints /\ error' = ErrMaxCuts) ]_vars

\* the fifth cut point has been refused
C9_Witness ==
  /\ Len(cutPoints) = MAX_CUTS
  /\ error = ErrMaxCuts

RotateTimes(rots, p, n) ==
  LET once(r) == RotationsAfterRotate(r, p) IN
  IF n = 4 THEN once(once(once(once(rots))))
  ELSE IF n = 3 THEN once(once(once(rots)))
  ELSE rots

\* C10: in every reachable state, rotatePage applied four times in a row to a
\* page gives back the rotation map as it was, every stored rotation is 90, 180
\* or 270, and three applications to a page without an entry store 270.
C10_RotationCycle ==
  /\ \A p \in DOMAIN rotations : rotations[p] \in {90, 180, 270}
  /\ \A p \in 1..(MaxPages + 1) :
       /\ RotateTimes(rotations, p, 4) = rotations
       /\ p \notin DOMAIN rotations =>
            /\ p \in DOMAIN RotateTimes(rotations, p, 3)
            /\ RotateTimes(rotations, p, 3)[p] = 270

\* a page has been rotated three times
C10_Witness ==
  \E p \in DOMAIN rotations : rotations[p] = 270

\* rotatePage applied n times (0..3) to page p
RotateN(rots, p, n) ==
  LET once(r) == RotationsAfterRotate(r, p) IN
  IF n = 0 THEN rots
  ELSE IF n = 1 THEN once(rots)
  ELSE IF n = 2 THEN once(once(rots))
  ELSE once(once(once(rots)))

\* C11: a toggleDeletePage step and a toggleCutPoint step leave the rotation map
\* as it was; a rotatePage step on a deleted page adds 90 degrees to that page
\* and leaves it deleted; and from every reachable state, deleting a page,
\* rotating it n times and restoring it leaves the page not deleted with the
\* rotation it had before plus n quarter turns.
C11_RotationIndependent ==
  [][ /\ \A p \in 0..(EditDocPages + 1) :
           /\ ToggleDeletePage(p) => rotations' = rotations
           /\ ToggleCutPoint(p) => rotations' = rotations
           /\ (p \in deletedPages /\ RotatePage(p)) =>
                /\ deletedPages' = deletedPages
                /\ RotationOf(rotations', p) = (RotationOf(rotations, p) + 90) % 360
      /\ \A p \in 1..trimFile.pageCount, n \in 0..3 :
           (p \notin deletedPages /\ Cardinality(deletedPages) < trimFile.pageCount - 1) =>
             LET gone == DeletedAfterToggle(deletedPages, p, trimFile)
                 turned == RotateN(rotations, p, n)
                 back == DeletedAfterToggle(gone, p, trimFile)
             IN /\ p \in gone
                /\ back = deletedPages
                /\ RotationOf(turned, p) = (RotationOf(rotations, p) + 90 * n) % 360
                /\ \A q \in 1..trimFile.pageCount :
                     q # p => RotationOf(turned, q) = RotationOf(rotations, q) ]_vars

\* a deleted page carries a rotation
C11_Witness ==
  /\ trimFile # NoFile
  /\ \E p \in deletedPages : p \in DOMAIN rotations /\ rotations[p] = 180

\* the ranges processTrim builds from a document, a cutPoints array and a
\* deletedPages set
RangesOf(file, cuts, deleted) == BuildRanges(ActivePageNums(file.pageCount, deleted), cuts)

\* page p closes a range that another range follows
IsBoundary(ranges, p) ==
  \E k \in 1..(Len(ranges) - 1) : ranges[k][Len(ranges[k])] = p

\* C12: a toggleDeletePage step leaves cutPoints as it was; when the step has
\* deleted a page that carries a cut point, the ranges processTrim builds are
\* those it builds without that cut point and the page closes no range; when the
\* step has restored such a page and a page survives after it, the page closes a
\* range that another range follows.
C12_CutSurvivesDeletion ==
  [][\A p \in 1..EditDocPages :
       ToggleDeletePage(p) =>
         /\ cutPoints' = cutPoints
         /\ (Includes(cutPoints, p) /\ p \in deletedPages') =>
              /\ RangesOf(trimFile, cutPoints', deletedPages')
                   = RangesOf(trimFile, FilterOut(cutPoints, p), deletedPages')
              /\ ~IsBoundary(RangesOf(trimFile, cutPoints', deletedPages'), p)
         /\ ( /\ Includes(cutPoints, p)
              /\ p \in deletedPages
              /\ p \notin deletedPages'
              /\ \E q \in (p + 1)..trimFile.pageCount : q \notin deletedPages ) =>
              IsBoundary(RangesOf(trimFile, cutPoints', deletedPages'), p) ]_vars

\* a page between two surviving pages is deleted and carries a cut point
C12_Witness ==
  \E p \in deletedPages :
    /\ Includes(cutPoints, p)
    /\ \E q \in 1..(p - 1) : q \notin deletedPages
    /\ \E q \in (p + 1)..trimFile.pageCount : q \notin deletedPages

\* C13: when an export is done, every page of every artifact carries the
\* rotation recorded for its own ordinal at the start of the export (none when
\* there is no entry); a page with an entry ends with exactly that rotation,
\* whatever rotation the source page has, and a page without one keeps the
\* rotation of the source page; the entries of deleted pages change nothing.
C13_EffectiveRotation ==
  ExportDone =>
    /\ \A k \in 1..Len(downloads) : \A j \in 1..Len(downloads[k].pages) :
         LET pg == downloads[k].pages[j] IN
         IF pg.page \in DOMAIN tproc.rots
         THEN pg.rotation = tproc.rots[pg.page] /\ pg.rotate = tproc.rots[pg.page]
         ELSE pg.rotation = 0 /\ pg.rotate = SourceRotate(pg.page)
    /\ LET kept == [q \in DOMAIN tproc.rots \ tproc.deleted |-> tproc.rots[q]] IN
       \A k \in 1..Len(downloads) :
         downloads[k].pages = PagesWithRotation(Parts[k], kept)

\* a deleted page and a surviving page both carry a rotation, in an export of
\* several parts
C13_Witness ==
  /\ ExportDone
  /\ Len(downloads) >= 2
  /\ \E d \in tproc.deleted : d \in DOMAIN tproc.rots
  /\ \E k \in 1..Len(downloads) : \E j \in 1..Len(downloads[k].pages) :
       /\ downloads[k].pages[j].rotation # 0
       /\ downloads[k].pages[j].rotation # SourceRotate(downloads[k].pages[j].page)

\* The merge in flight has delivered its artifact (the reset timer is armed).
MergeDone == mproc.pc = "timer"

\* C14: a mergePDFs call takes the list as it is when the button is pressed, and
\* when the merge is done its one artifact holds, for the k-th file of that list
\* and its q-th page, that page at the position given by the page counts of the
\* files before it: the concatenation in list order, as long as the total shown.
C14_MergeConcatenation ==
  [][ /\ (mproc.pc = "idle" /\ mproc'.pc = "file") => mproc'.files = files
      /\ MergeDone' =>
           LET fs == mproc'.files
               out == merged'[1].pages
           IN /\ Len(merged') = 1
              /\ Len(out) = TotalPages(fs)
              /\ \A k \in 1..Len(fs) :
                   /\ fs[k].pageCount # Unreadable
                   /\ \A q \in 1..fs[k].pageCount :
                        out[TotalPages(SubSeq(fs, 1, k - 1)) + q]
                          = [id |-> fs[k].id, page |-> q] ]_vars

\* a merge is done on a list of three files that a removal and a reordering
\* have shaped, one of them of several pages
C14_Witness ==
  /\ MergeDone
  /\ Len(mproc.files) = 3
  /\ mproc.files[1].id > mproc.files[2].id
  /\ nextId > 4
  /\ \E k \in 1..3 : mproc.files[k].pageCount >= 2

\* C15 as stated: every file of the list a mergePDFs call works on has a known
\* page count (getPageCount did not return null for it).
C15_KnownPageCounts ==
  mproc.pc # "idle" =>
    \A k \in 1..Len(mproc.files) : mproc.files[k].pageCount # Unreadable

\* C16 as stated: the merge list never holds more than MAX_FILES files.
C16_MergeListCap == Len(files) <= MAX_FILES

\* C17 as stated: a processTrim call working with a cut point outside
\* 1..pageCount - 1 delivers no artifact and does not reach its successful end.
C17_InvalidCutPointFails ==
  ( /\ tproc.pc \notin {"idle", "returned"}
    /\ \E c \in Elems(tproc.cuts) : c < 1 \/ c > tproc.file.pageCount - 1 )
  => (downloads = <<>> /\ tproc.pc # "timer")

\* C18: a step that delivers an artifact delivers exactly one, from the assembly
\* of the part in turn, numbered by its place in the delivery order, and leaves
\* the call waiting (for the pacing delay, or for the reset timer after the last
\* part); once a part has been delivered, the assembly of the next one is entered
\* only by the step that ends the pacing delay.
C18_SequentialPacedDelivery ==
  [][ /\ Len(downloads') > Len(downloads) =>
           /\ Len(downloads') = Len(downloads) + 1
           /\ SubSeq(downloads', 1, Len(downloads)) = downloads
           /\ tproc.pc \in {"part", "single"}
           /\ tproc'.pc = (IF tproc.pc = "part" /\ tproc.i < Len(tproc.ranges) - 1
                           THEN "pace" ELSE "timer")
           /\ tproc.pc = "part" =>
                /\ downloads'[Len(downloads')].name.n = Len(downloads')
                /\ downloads'[Len(downloads')].name.n = tproc.i + 1
      /\ (tproc'.pc = "part" /\ tproc' # tproc /\ downloads' # <<>>) =>
           (tproc.pc = "pace" /\ downloads' = downloads /\ tproc'.i = tproc.i + 1) ]_vars

\* the second part has been delivered and the third waits for the delay
C18_Witness ==
  /\ tproc.pc = "pace"
  /\ Len(downloads) = 2
  /\ Len(tproc.ranges) >= 3

\* C19: the step in which the assembly of a part fails leaves the artifacts
\* delivered so far as they are (the parts before the failing one, numbered in
\* order), sets the error message and the processing flag to false, and leaves
\* the document, cutPoints, deletedPages and rotations as they are; with no call
\* in flight no step delivers an artifact.
C19_PartialFailure ==
  [][ /\ (tproc.pc = "part" /\ tproc'.pc = "idle") =>
           /\ downloads' = downloads
           /\ Len(downloads) = tproc.i
           /\ \A j \in 1..Len(downloads) :
                downloads[j].name = PartName(tproc.file.name, j - 1)
           /\ error' = ErrProcess
           /\ isProcessing' = FALSE
           /\ trimFile' = trimFile
           /\ cutPoints' = cutPoints
           /\ deletedPages' = deletedPages
           /\ rotations' = rotations
      /\ tproc.pc \in {"idle", "returned"} => Len(downloads') <= Len(downloads) ]_vars

\* the third part has failed after two deliveries, and the session is as it was
C19_Witness ==
  /\ tproc.pc = "idle"
  /\ ~isProcessing
  /\ error = ErrProcess
  /\ Len(downloads) = 2
  /\ Len(cutPoints) >= 2
  /\ trimFile # NoFile

\* the steps that reject what the user supplies
RejectsInput ==
  \/ HandleDropMerge(0)
  \/ HandleFileInputMerge(0)
  \/ HandleDropTrim(NoPdf)
  \/ HandleFileInputTrim(NoPdf)
  \/ \E l \in BagToSet(loads) : l.probe < 1 /\ ProbeDone(l)

\* C20: a step that rejects what the user supplies (no file of the accepted
\* type, in either mode; in trim mode a document that cannot be read or has no
\* page) sets an error message and leaves the merge list, the loaded document,
\* cutPoints, deletedPages and rotations as they were; and every step that
\* newly sets one of the three rejection messages leaves them as they were.
C20_RejectionKeepsState ==
  [][ /\ RejectsInput =>
           /\ error' # NoError
           /\ files' = files
           /\ trimFile' = trimFile
           /\ cutPoints' = cutPoints
           /\ deletedPages' = deletedPages
           /\ rotations' = rotations
      /\ (error' # error /\ error' \in {ErrOnlyPdf, ErrUnreadable, ErrEmpty}) =>
           /\ files' = files
           /\ trimFile' = trimFile
           /\ cutPoints' = cutPoints
           /\ deletedPages' = deletedPages
           /\ rotations' = rotations ]_vars

\* a second document has been rejected as unreadable while the first is loaded
\* and carries a cut point and a deletion
C20_Witness ==
  /\ mode = "trim"
  /\ error = ErrUnreadable
  /\ trimFile # NoFile
  /\ cutPoints # <<>>
  /\ deletedPages # {}

\* the three edit collections are empty
EditsEmpty == cutPoints = <<>> /\ deletedPages = {} /\ DOMAIN rotations = {}

\* one of the three edit collections differs from what it was, by one cut point,
\* one page or the entry of one page, and the other two are as they were
OneEdit ==
  \/ /\ deletedPages' = deletedPages /\ rotations' = rotations
     /\ \E p \in Elems(cutPoints) \cup Elems(cutPoints') :
          \/ Elems(cutPoints') = Elems(cutPoints) \cup {p} /\ Len(cutPoints') = Len(cutPoints) + 1
          \/ Elems(cutPoints') = Elems(cutPoints) \ {p} /\ Len(cutPoints') = Len(cutPoints) - 1
  \/ /\ cutPoints' = cutPoints /\ rotations' = rotations
     /\ \E p \in deletedPages \cup deletedPages' :
          deletedPages' \in {deletedPages \cup {p}, deletedPages \ {p}}
  \/ /\ cutPoints' = cutPoints /\ deletedPages' = deletedPages
     /\ \E p \in DOMAIN rotations \cup DOMAIN rotations' :
          \A q \in (DOMAIN rotations \cup DOMAIN rotations') \ {p} :
            q \in DOMAIN rotations /\ q \in DOMAIN rotations' /\ rotations'[q] = rotations[q]

\* the steps that discard the edits
LoadsDocument == \E l \in BagToSet(loads) : ThumbnailsDone(l, TRUE)
DiscardsDocument == RemoveTrimFile \/ (\E m \in Modes : HandleModeChange(m)) \/ TrimTimer

\* C21: the step that loads a document leaves a document loaded and cutPoints,
\* deletedPages and rotations empty; removeTrimFile, handleModeChange and the
\* reset timer of processTrim leave no document loaded and the three empty;
\* every other step leaves the document as it is and either leaves the three as
\* they are or changes one of them by one member.
C21_WholesaleResets ==
  [][ /\ LoadsDocument => (trimFile' # NoFile /\ EditsEmpty')
      /\ DiscardsDocument => (trimFile' = NoFile /\ EditsEmpty')
      /\ ~(LoadsDocument \/ DiscardsDocument) =>
           /\ trimFile' = trimFile
           /\ UNCHANGED <<cutPoints, deletedPages, rotations>> \/ OneEdit ]_vars

\* a second document has been loaded over one that carried edits, during the
\* export of the first
C21_Witness ==
  /\ trimFile # NoFile
  /\ EditsEmpty
  /\ tproc.pc \notin {"idle", "returned"}
  /\ tproc.file # trimFile

\* a processTrim call is between its first await and the firing of its timer
InFlight == tproc.pc \notin {"idle", "returned"}

\* what a processTrim call keeps of the render it was created in
Snapshot == <<tproc.file, tproc.cuts, tproc.deleted, tproc.rots>>

\* the artifacts a document, a cutPoints array, a deletedPages set and a
\* rotation map determine: the one trimmed document, or one part per range
ArtifactsOf(file, cuts, deleted, rots) ==
  IF Len(cuts) = 0
  THEN << [name |-> TrimmedName(file.name),
           pages |-> PagesWithRotation(ActivePageNums(file.pageCount, deleted), rots)] >>
  ELSE LET ranges == RangesOf(file, cuts, deleted) IN
       [i \in 1..Len(ranges) |->
          [name |-> PartName(file.name, i - 1), pages |-> PagesWithRotation(ranges[i], rots)]]

IsPrefix(a, b) == Len(a) <= Len(b) /\ a = SubSeq(b, 1, Len(a))

\* what the user can do while a processTrim call is in flight
UserActsInFlight ==
  /\ InFlight
  /\ \/ \E p \in 1..(MaxPages + 1) :
          ClickCutLine(p) \/ ClickThumbDelete(p) \/ ClickThumbRotate(p) \/ OpenViewer(p)
     \/ LightboxCutBefore \/ LightboxCutAfter \/ LightboxDelete \/ LightboxRotate
     \/ RemoveTrimFile
     \/ \E m \in Modes : HandleModeChange(m)
     \/ \E input \in LoadInputs : HandleDropTrim(input) \/ HandleFileInputTrim(input)

\* C22: a processTrim call keeps the document, cutPoints, deletedPages and
\* rotations of the moment it started until it ends; every step that starts or
\* advances it leaves delivered the first artifacts of those that this state
\* determines, and all of them when its timer is armed; a step that changes the
\* call in flight or what has been delivered is no user action (cut, delete,
\* rotate, remove, switch mode, supply a document).
C22_NoCancellation ==
  [][ /\ (~InFlight /\ InFlight') =>
           Snapshot' = <<trimFile, cutPoints, deletedPages, rotations>>
      /\ (InFlight /\ InFlight') => Snapshot' = Snapshot
      /\ (InFlight' /\ (tproc' # tproc \/ downloads' # downloads)) =>
           /\ IsPrefix(downloads',
                       ArtifactsOf(tproc'.file, tproc'.cuts, tproc'.deleted, tproc'.rots))
           /\ tproc'.pc = "timer" =>
                downloads' = ArtifactsOf(tproc'.file, tproc'.cuts, tproc'.deleted, tproc'.rots)
      /\ (InFlight /\ (tproc' # tproc \/ downloads' # downloads)) => ~UserActsInFlight ]_vars

\* both parts have been delivered of a document whose cut point, deletion and
\* rotation were all changed while the call was in flight
C22_Witness ==
  /\ ExportDone
  /\ Len(downloads) = 2
  /\ trimFile = tproc.file
  /\ cutPoints # tproc.cuts
  /\ deletedPages # tproc.deleted
  /\ rotations # tproc.rots

\* the ids of the files of a list
IdsOf(list) == {list[k].id : k \in 1..Len(list)}

\* C23 as stated: the reset timer of a finished processTrim call leaves a loaded
\* document alone that is not the one the call exported, and the reset timer of
\* a finished mergePDFs call leaves in the list the files that were not in the
\* list the call merged.
C23_TimerSparesNewSession ==
  [][ /\ (TrimTimer /\ trimFile # NoFile /\ trimFile # tproc.file) => trimFile' = trimFile
      /\ MergeTimer =>
           \A k \in 1..Len(files) :
             files[k].id \notin IdsOf(mproc.files) => files[k].id \in IdsOf(files') ]_vars

\* C24 as stated: whenever the light table is shown, viewerPage is a page of
\* the loaded document.
C24_ViewerPageInRange ==
  LightboxShown => (1 <= viewerPage /\ viewerPage <= trimFile.pageCount)

\* C25 as stated: when an export with cut points is done, the number of
\* artifacts delivered is the number the export button announced.
C25_ButtonCountIsArtifactCount ==
  (ExportDone /\ Len(tproc.cuts) > 0) => Len(downloads) = SplitButtonCount(tproc.cuts)

\* C26 as stated: when an export with cut points is done, every surviving page
\* is in the artifact whose place in the delivery order is the part number
\* getPartForPage gives for the page.
C26_PartBadgeIsPartIndex ==
  (ExportDone /\ Len(tproc.cuts) > 0) =>
    \A p \in SurvivingSet : GetPartForPage(tproc.cuts, p) = PartIndex(p)

\* the text "first-last" (or "page" alone) of the pages first..last
FirstLastText(first, last) ==
  IF first = last THEN ToString(first) ELSE ToString(first) \o "-" \o ToString(last)

\* C27: once a processTrim call with cut points has built its ranges, the part
\* list of the preview of the same document, cutPoints and deletedPages has as
\* many parts as there are ranges and its i-th text gives the first and the last
\* page of the i-th range; and when the export is done, of the i-th artifact.
C27_PreviewIsPartList ==
  (tproc.pc \in {"part", "pace", "timer"} /\ Len(tproc.cuts) > 0) =>
    LET preview == SplitPartsPreview(trimFile, cutPoints, deletedPages) IN
    /\ <<trimFile, cutPoints, deletedPages>> = <<tproc.file, tproc.cuts, tproc.deleted>>
    /\ Len(preview) = Len(tproc.ranges)
    /\ \A i \in 1..Len(tproc.ranges) :
         preview[i] = FirstLastText(tproc.ranges[i][1], tproc.ranges[i][Len(tproc.ranges[i])])
    /\ ExportDone =>
         /\ Len(preview) = Len(downloads)
         /\ \A i \in 1..Len(downloads) :
              preview[i] = FirstLastText(Parts[i][1], Parts[i][Len(Parts[i])])

\* an export of three parts is done, one of a single page and one with a
\* deleted page inside, a cut point sitting on a deleted page
C27_Witness ==
  /\ ExportDone
  /\ Len(downloads) = 3
  /\ \E i \in 1..3 : Len(Parts[i]) = 1
  /\ \E i \in 1..3 : Len(Parts[i]) >= 2 /\ Parts[i][Len(Parts[i])] - Parts[i][1] >= Len(Parts[i])
  /\ Elems(tproc.cuts) \cap tproc.deleted # {}

\* C28: a step that adds or removes the cut point of a page that is deleted is
\* one of the resets, which empty cutPoints and deletedPages together; a step
\* after which a page is deleted and carries a cut point, when that was not so
\* before, is a deletion of a page that carried the cut point already; and the
\* three cut controls are disabled on a deleted page.
C28_NoCutOnDeletedPage ==
  [][\A p \in 0..(EditDocPages + 1) :
       /\ ((Includes(cutPoints, p) # Includes(cutPoints', p)) /\ p \in deletedPages) =>
            (cutPoints' = <<>> /\ deletedPages' = {})
       /\ ((Includes(cutPoints', p) /\ p \in deletedPages')
             /\ ~(Includes(cutPoints, p) /\ p \in deletedPages)) =>
            (Includes(cutPoints, p) /\ cutPoints' = cutPoints)
       /\ p \in deletedPages =>
            /\ ~ClickCutLine(p)
            /\ viewerPage = p + 1 => ~LightboxCutBefore
            /\ viewerPage = p => ~LightboxCutAfter ]_vars

\* the light table is on the page after a deleted page that carries a cut point
C28_Witness ==
  /\ LightboxShown
  /\ viewerPage - 1 \in deletedPages
  /\ Includes(cutPoints, viewerPage - 1)
  /\ viewerPage \notin deletedPages

\* a mergePDFs call is between its first await and the firing of its timer
MergeInFlight == mproc.pc # "idle"

\* C29: whenever isProcessing is true it is false again later, and whenever
\* isMerging is true it is false again later, whatever the user does meanwhile;
\* each flag is true exactly while a call of its kind is in flight, and a call
\* starts only when none of its kind is in flight.
C29_ExportsTerminate ==
  /\ isProcessing ~> ~isProcessing
  /\ isMerging ~> ~isMerging
  /\ [](isProcessing <=> InFlight)
  /\ [](isMerging <=> MergeInFlight)
  /\ [][ /\ (tproc'.pc = "load" /\ tproc' # tproc) => (~InFlight /\ ~isProcessing)
         /\ (mproc'.pc = "file" /\ mproc'.i = 0 /\ mproc' # mproc) =>
              (~MergeInFlight /\ ~isMerging) ]_vars

\* an export of each kind has ended, the merge by its failure, the trim export
\* by its timer after the mode was switched under it
C29_Witness ==
  /\ ~isProcessing /\ ~InFlight /\ Len(downloads) >= 1
  /\ ~isMerging /\ ~MergeInFlight /\ error = ErrMerge
  /\ mode = "merge"

\* C30 as stated: the step in which a merge attempt fails, the list being the
\* one the attempt worked on, leaves no timer of the auto-merge effect armed:
\* no further attempt on that list is on its way unless the user changes the
\* list.
C30_NoRetryAfterFailure ==
  [][ ( /\ MergeInFlight
        /\ ~MergeInFlight'
        /\ error' = ErrMerge
        /\ files' = mproc.files )
      => ~AutoMergeArmed' ]_vars

====
